---- MODULE Spec2Model ----
(***************************************************************************)
(* Model of graby-ts-site-config: the site index written by                *)
(* scripts/build-configs.ts and the SiteConfigManager that resolves a      *)
(* hostname to a configuration key and loads/caches the configuration, and *)
(* the SiteConfigParser that reads a configuration text.                   *)
(*                                                                         *)
(* A JavaScript string is a sequence of one-character strings, so that     *)
(* toLowerCase, startsWith, endsWith, substring and split are computed     *)
(* character by character.                                                 *)
(***************************************************************************)
EXTENDS Integers, Sequences, FiniteSets, TLC

(***************************************************************************)
(* Bounds                                                                  *)
(***************************************************************************)
\* largest number of dot-separated labels of a hostname passed to the manager
MaxLabels == 4
\* largest number of *.txt files the build script finds in CONFIG_DIR
MaxFiles == 3
\* longest hostname list handed to preloadConfigs
MaxPreload == 2
\* largest number of lines of a configuration text handed to the parser
MaxLines == 3

(***************************************************************************)
(* Strings                                                                 *)
(***************************************************************************)
DOT == <<".">>
WWW == <<"w", "w", "w">>
WWW_DOT == <<"w", "w", "w", ".">>
B == <<"b">>
AB == <<"a", "b">>
CONSTRUCTOR == <<"c", "o", "n", "s", "t", "r", "u", "c", "t", "o", "r">>
GLOBAL == <<"g", "l", "o", "b", "a", "l">>

\* the value null; no string equals it ("null" is not a character)
NULL == <<"null">>

\* String.prototype.toLowerCase on one character
toLowerCaseChar(c) ==
  CASE c = "A" -> "a" [] c = "B" -> "b" [] c = "C" -> "c" [] c = "G" -> "g"
    [] c = "L" -> "l" [] c = "N" -> "n" [] c = "O" -> "o" [] c = "R" -> "r"
    [] c = "S" -> "s" [] c = "T" -> "t" [] c = "U" -> "u" [] c = "W" -> "w"
    [] OTHER -> c

\* String.prototype.toUpperCase on one character (used to build inputs)
toUpperCaseChar(c) ==
  CASE c = "a" -> "A" [] c = "b" -> "B" [] c = "c" -> "C" [] c = "g" -> "G"
    [] c = "l" -> "L" [] c = "n" -> "N" [] c = "o" -> "O" [] c = "r" -> "R"
    [] c = "s" -> "S" [] c = "t" -> "T" [] c = "u" -> "U" [] c = "w" -> "W"
    [] OTHER -> c

toLowerCase(s) == [i \in 1..Len(s) |-> toLowerCaseChar(s[i])]
toUpperCase(s) == [i \in 1..Len(s) |-> toUpperCaseChar(s[i])]

\* s.startsWith(p)
startsWith(s, p) == Len(s) >= Len(p) /\ SubSeq(s, 1, Len(p)) = p
\* s.endsWith(p)
endsWith(s, p) == Len(s) >= Len(p) /\ SubSeq(s, Len(s) - Len(p) + 1, Len(s)) = p
\* s.substring(n): the characters from 0-based position n on
substring(s, n) == SubSeq(s, n + 1, Len(s))

\* s.split('.').length: one more than the number of dots
RECURSIVE splitDotLength(_)
splitDotLength(s) ==
  IF s = <<>> THEN 1
  ELSE (IF Head(s) = "." THEN 1 ELSE 0) + splitDotLength(Tail(s))

\* labels.join('.')
RECURSIVE joinDot(_)
joinDot(labels) ==
  IF Len(labels) = 0 THEN <<>>
  ELSE IF Len(labels) = 1 THEN labels[1]
  ELSE labels[1] \o DOT \o joinDot(Tail(labels))

(***************************************************************************)
(* Inputs                                                                  *)
(***************************************************************************)
HostLabels == {B, AB, WWW, CONSTRUCTOR}

LowerHostnames ==
  {joinDot(ls) : ls \in UNION {[1..n -> HostLabels] : n \in 1..MaxLabels}}

\* hostnames handed to the manager: lower-case and upper-case spellings
Hostnames == LowerHostnames \cup {toUpperCase(h) : h \in LowerHostnames}

\* basenames of the *.txt files of CONFIG_DIR (ftr-site-config names are
\* lower-case): one-label, two-label and www. domains, nested wildcards,
\* specific subdomains and the global file
ConfigFiles ==
  { B, AB \o DOT \o B, WWW_DOT \o B,
    DOT \o B, DOT \o AB \o DOT \o B,
    B \o DOT \o AB \o DOT \o B, WWW_DOT \o AB \o DOT \o B,
    GLOBAL }

\* the orders in which glob.sync can list up to MaxFiles distinct files
FileLists ==
  UNION { {fs \in [1..n -> ConfigFiles] :
             \A i, j \in 1..n : i # j => fs[i] # fs[j]} : n \in 0..MaxFiles }

(***************************************************************************)
(* scripts/build-configs.ts: the site index                                *)
(***************************************************************************)
EmptySiteIndex == [domains |-> {}, wildcards |-> <<>>, specificSubdomains |-> {}]

\* the categorisation of one basename (body of the loop over configFiles)
addToIndex(siteIndex, basename) ==
  IF basename = GLOBAL THEN siteIndex
  ELSE IF startsWith(basename, DOT)
    THEN [siteIndex EXCEPT !.wildcards = Append(@, basename)]
  ELSE IF splitDotLength(basename) = 2
    THEN [siteIndex EXCEPT !.domains = @ \cup {basename}]
  ELSE IF splitDotLength(basename) > 2
    THEN [siteIndex EXCEPT !.specificSubdomains = @ \cup {basename}]
  ELSE [siteIndex EXCEPT !.domains = @ \cup {basename}]

\* the loop over configFiles
RECURSIVE buildSiteIndex(_)
buildSiteIndex(files) ==
  IF files = <<>> THEN EmptySiteIndex
  ELSE addToIndex(buildSiteIndex(SubSeq(files, 1, Len(files) - 1)),
                  files[Len(files)])

(***************************************************************************)
(* State                                                                   *)
(***************************************************************************)
VARIABLES
  domains,             \* site-index: own keys of the domains record
  wildcards,           \* site-index: the wildcards array, in stored order
  specificSubdomains,  \* site-index: own keys of the specificSubdomains record
  cache,               \* SiteConfigManager.cache: hostname -> configuration
  loading,             \* SiteConfigManager.loading: hostname -> promise
  input,               \* the hostname or the text a function is applied to
  call,                \* the call the latest step made and what it returned
  completion,          \* the getConfigForHost promise the latest step settled
  sinceClear,          \* what completed calls served since the last clearCache()
  preload              \* the preloadConfigs call in progress or last finished

index == <<domains, wildcards, specificSubdomains>>
vars == <<domains, wildcards, specificSubdomains, cache, loading, input, call,
          completion, sinceClear, preload>>

\* the lower-case property names every object literal inherits from
\* Object.prototype with a truthy value and that consist of hostname characters
ObjectPrototypeKeys == {CONSTRUCTOR}

\* `if (record[name])` on an object literal whose own keys all map to true
isTruthyProperty(ownKeys, name) ==
  name \in ownKeys \/ name \in ObjectPrototypeKeys

(***************************************************************************)
(* SiteConfigManager: hostname resolution                                  *)
(***************************************************************************)
\* faulty variant: strips the www. prefix, as the method's doc comment announces
normalizeHostname_stripsWww(hostname) ==
  LET lower == toLowerCase(hostname) IN
    IF startsWith(lower, WWW_DOT) THEN substring(lower, 4) ELSE lower

normalizeHostname(hostname) == toLowerCase(hostname)

\* faulty variant: the www. form of the wildcard's domain is not excluded
wildcardMatches_www(wildcard, hostname) ==
  LET wildcardDomain == substring(wildcard, 1) IN
    /\ endsWith(hostname, wildcardDomain)
    /\ hostname # wildcardDomain

\* the test of one wildcard in the loop of getConfigKeyForHost
wildcardMatches(wildcard, hostname) ==
  LET wildcardDomain == substring(wildcard, 1) IN
    /\ endsWith(hostname, wildcardDomain)
    /\ hostname # wildcardDomain
    /\ hostname # WWW_DOT \o wildcardDomain

\* `for (const wildcard of wildcards)`, from position i on
RECURSIVE wildcardLoop(_, _)
wildcardLoop(hostname, i) ==
  IF i > Len(wildcards) THEN NULL
  ELSE IF wildcardMatches(wildcards[i], hostname) THEN wildcards[i]
  ELSE wildcardLoop(hostname, i + 1)

\* faulty variant: the www. variant returns the hostname, not the stripped key
getConfigKeyForHost_keepsWww(h) ==
  LET hostname == normalizeHostname(h)
      withoutWww == substring(hostname, 4)
  IN IF isTruthyProperty(domains, hostname) THEN hostname
     ELSE IF startsWith(hostname, WWW_DOT) /\ isTruthyProperty(domains, withoutWww)
       THEN hostname
     ELSE IF isTruthyProperty(specificSubdomains, hostname) THEN hostname
     ELSE wildcardLoop(hostname, 1)

\* faulty variant: the wildcards are tried before the specific subdomains
getConfigKeyForHost_wildcardFirst(h) ==
  LET hostname == normalizeHostname(h)
      withoutWww == substring(hostname, 4)
  IN IF isTruthyProperty(domains, hostname) THEN hostname
     ELSE IF startsWith(hostname, WWW_DOT) /\ isTruthyProperty(domains, withoutWww)
       THEN withoutWww
     ELSE IF wildcardLoop(hostname, 1) # NULL THEN wildcardLoop(hostname, 1)
     ELSE IF isTruthyProperty(specificSubdomains, hostname) THEN hostname
     ELSE NULL

\* faulty variant: the www. variant is also tried against the specific subdomains
getConfigKeyForHost_wwwSubdomain(h) ==
  LET hostname == normalizeHostname(h)
      withoutWww == substring(hostname, 4)
  IN IF isTruthyProperty(domains, hostname) THEN hostname
     ELSE IF startsWith(hostname, WWW_DOT) /\ isTruthyProperty(domains, withoutWww)
       THEN withoutWww
     ELSE IF isTruthyProperty(specificSubdomains, hostname) THEN hostname
     ELSE IF startsWith(hostname, WWW_DOT)
             /\ isTruthyProperty(specificSubdomains, withoutWww)
       THEN withoutWww
     ELSE wildcardLoop(hostname, 1)

getConfigKeyForHost(h) ==
  LET hostname == normalizeHostname(h)
      withoutWww == substring(hostname, 4)
  IN IF isTruthyProperty(domains, hostname) THEN hostname
     ELSE IF startsWith(hostname, WWW_DOT) /\ isTruthyProperty(domains, withoutWww)
       THEN withoutWww
     ELSE IF isTruthyProperty(specificSubdomains, hostname) THEN hostname
     ELSE wildcardLoop(hostname, 1)

hasConfigForHost(hostname) == getConfigKeyForHost(hostname) # NULL

(***************************************************************************)
(* site-index.ts as generated by the build script: hasConfig               *)
(***************************************************************************)
RECURSIVE hasConfigLoop(_, _)
hasConfigLoop(hostname, i) ==
  IF i > Len(wildcards) THEN FALSE
  ELSE LET wildcardDomain == substring(wildcards[i], 1) IN
    IF /\ endsWith(hostname, wildcardDomain)
       /\ hostname # wildcardDomain
       /\ hostname # WWW_DOT \o wildcardDomain
    THEN TRUE
    ELSE hasConfigLoop(hostname, i + 1)

\* faulty variant: the www. variant of a domain is not looked up
hasConfig_noWww(h) ==
  LET hostname == toLowerCase(h) IN
    IF isTruthyProperty(domains, hostname) THEN TRUE
    ELSE IF isTruthyProperty(specificSubdomains, hostname) THEN TRUE
    ELSE hasConfigLoop(hostname, 1)

hasConfig(h) ==
  LET hostname == toLowerCase(h) IN
    IF isTruthyProperty(domains, hostname) THEN TRUE
    ELSE IF startsWith(hostname, WWW_DOT)
            /\ isTruthyProperty(domains, substring(hostname, 4)) THEN TRUE
    ELSE IF isTruthyProperty(specificSubdomains, hostname) THEN TRUE
    ELSE hasConfigLoop(hostname, 1)

(***************************************************************************)
(* SiteConfigManager: loading and caching                                  *)
(***************************************************************************)
\* the object literal {} (no own keys)
EmptyObject == [k \in {} |-> NULL]

\* obj[key] = value
setProperty(obj, key, value) ==
  [k \in DOMAIN obj \cup {key} |-> IF k = key THEN value ELSE obj[k]]

\* faulty variant: the key is not deleted
deleteProperty_keeps(obj, key) == obj

\* delete obj[key]
deleteProperty(obj, key) == [k \in DOMAIN obj \ {key} |-> obj[k]]

\* obj[key], own or inherited from Object.prototype
getProperty(obj, key) ==
  IF key \in DOMAIN obj THEN obj[key]
  ELSE [kind |-> "prototype", key |-> key, id |-> 0]

\* the default export of ./configs/<configKey>.js (one object per module)
configModule(configKey) == [kind |-> "site", key |-> configKey, id |-> 0]

\* no configuration (a promise that has no value yet)
undefined == [kind |-> "undefined", key |-> NULL, id |-> 0]

\* the configurations some caller or the cache still holds a reference to
LiveConfigs ==
  {cache[k] : k \in DOMAIN cache}
    \cup {sinceClear.completed[k] : k \in DOMAIN sinceClear.completed}
    \cup {completion.value}
    \cup (IF call.op = "getConfigForHost"
              /\ call.result.path \in {"cache", "global"}
            THEN {call.result.value} ELSE {})

\* the identity of the next object literal getGlobalConfig() creates: one
\* that no live object has
FreshId ==
  LET used == {v.id : v \in {w \in LiveConfigs : w.kind = "global"}} IN
    CHOOSE n \in 1..(Cardinality(used) + 1) :
      n \notin used /\ \A m \in 1..(n - 1) : m \in used

\* getGlobalConfig(): a new object on every call
getGlobalConfig == [kind |-> "global", key |-> NULL, id |-> FreshId]

\* faulty variant: no try/catch around the dynamic import
loadConfig_noCatch(configKey, importOk) ==
  IF importOk
    THEN [status |-> "fulfilled", value |-> configModule(configKey)]
    ELSE [status |-> "rejected", value |-> undefined]

\* how the promise of loadConfig(configKey) settles, given whether the
\* dynamic import succeeds
loadConfig(configKey, importOk) ==
  IF importOk
    THEN [status |-> "fulfilled", value |-> configModule(configKey)]
    ELSE [status |-> "fulfilled", value |-> getGlobalConfig]

\* faulty variant: only the key lookup normalises; cache and loading are
\* keyed by the hostname as given
getConfigForHostIn_rawKey(cacheObj, loadingObj, h) ==
  LET hostname == h
      configKey == getConfigKeyForHost(hostname)
  IN IF isTruthyProperty(DOMAIN cacheObj, hostname)
       THEN [path |-> "cache", hostname |-> hostname, configKey |-> NULL,
             value |-> getProperty(cacheObj, hostname)]
     ELSE IF hostname \in DOMAIN loadingObj \cup ObjectPrototypeKeys
       THEN [path |-> "loading", hostname |-> hostname, configKey |-> NULL,
             value |-> getProperty(loadingObj, hostname)]
     ELSE IF configKey # NULL /\ configKey # <<>>
       THEN [path |-> "load", hostname |-> hostname, configKey |-> configKey,
             value |-> undefined]
     ELSE [path |-> "global", hostname |-> hostname, configKey |-> NULL,
           value |-> getGlobalConfig]

\* faulty variant: a load in flight is not looked for
getConfigForHostIn_noDedup(cacheObj, loadingObj, h) ==
  LET hostname == normalizeHostname(h)
      configKey == getConfigKeyForHost(hostname)
  IN IF isTruthyProperty(DOMAIN cacheObj, hostname)
       THEN [path |-> "cache", hostname |-> hostname, configKey |-> NULL,
             value |-> getProperty(cacheObj, hostname)]
     ELSE IF configKey # NULL /\ configKey # <<>>
       THEN [path |-> "load", hostname |-> hostname, configKey |-> configKey,
             value |-> undefined]
     ELSE [path |-> "global", hostname |-> hostname, configKey |-> NULL,
           value |-> getGlobalConfig]

\* faulty variant: a hostname whose key does not resolve is loaded under
\* its own name
getConfigForHostIn_loadsUnresolved(cacheObj, loadingObj, h) ==
  LET hostname == normalizeHostname(h)
      configKey == getConfigKeyForHost(hostname)
  IN IF isTruthyProperty(DOMAIN cacheObj, hostname)
       THEN [path |-> "cache", hostname |-> hostname, configKey |-> NULL,
             value |-> getProperty(cacheObj, hostname)]
     ELSE IF hostname \in DOMAIN loadingObj \cup ObjectPrototypeKeys
       THEN [path |-> "loading", hostname |-> hostname, configKey |-> NULL,
             value |-> getProperty(loadingObj, hostname)]
     ELSE IF configKey # NULL /\ configKey # <<>>
       THEN [path |-> "load", hostname |-> hostname, configKey |-> configKey,
             value |-> undefined]
     ELSE [path |-> "load", hostname |-> hostname, configKey |-> hostname,
           value |-> undefined]

\* the synchronous body of getConfigForHost(h) when this.cache is cacheObj
\* and this.loading is loadingObj: which return statement is reached, and
\* with what
getConfigForHostIn(cacheObj, loadingObj, h) ==
  LET hostname == normalizeHostname(h)
      configKey == getConfigKeyForHost(hostname)
  IN IF isTruthyProperty(DOMAIN cacheObj, hostname)
       THEN [path |-> "cache", hostname |-> hostname, configKey |-> NULL,
             value |-> getProperty(cacheObj, hostname)]
     ELSE IF hostname \in DOMAIN loadingObj \cup ObjectPrototypeKeys
       THEN [path |-> "loading", hostname |-> hostname, configKey |-> NULL,
             value |-> getProperty(loadingObj, hostname)]
     ELSE IF configKey # NULL /\ configKey # <<>>
       THEN [path |-> "load", hostname |-> hostname, configKey |-> configKey,
             value |-> undefined]
     ELSE [path |-> "global", hostname |-> hostname, configKey |-> NULL,
           value |-> getGlobalConfig]

\* faulty variant: an unresolved hostname loads the key 'global' instead of
\* returning getGlobalConfig()
getConfigForHost_loadsGlobal(h) ==
  LET r == getConfigForHostIn(cache, loading, h) IN
    IF r.path = "global"
      THEN [path |-> "load", hostname |-> r.hostname, configKey |-> GLOBAL,
            value |-> undefined]
      ELSE r

\* getConfigForHost(h) on the manager's current cache and loading
getConfigForHost(h) == getConfigForHostIn(cache, loading, h)

\* faulty variant: the then-callback stores only a site's configuration
cacheLoaded_onlySites(cacheObj, hostname, config) ==
  IF config.kind = "site" THEN setProperty(cacheObj, hostname, config)
  ELSE cacheObj

\* faulty variant: the then-callback does not store the configuration
cacheLoaded_skips(cacheObj, hostname, config) == cacheObj

\* the then-callback's `this.cache[hostname] = config`
cacheLoaded(cacheObj, hostname, config) == setProperty(cacheObj, hostname, config)

(***************************************************************************)
(* SiteConfigParser: the directive names                                   *)
(***************************************************************************)
\* authentication-related tags that are ignored
IGNORED_AUTH_TAGS ==
  { <<"r", "e", "q", "u", "i", "r", "e", "s", "_", "l", "o", "g", "i", "n">>,
    <<"l", "o", "g", "i", "n", "_", "u", "r", "i">>,
    <<"l", "o", "g", "i", "n", "_", "u", "s", "e", "r", "n", "a", "m",
      "e", "_", "f", "i", "e", "l", "d">>,
    <<"l", "o", "g", "i", "n", "_", "p", "a", "s", "s", "w", "o", "r",
      "d", "_", "f", "i", "e", "l", "d">>,
    <<"l", "o", "g", "i", "n", "_", "e", "x", "t", "r", "a", "_", "f",
      "i", "e", "l", "d", "s">>,
    <<"n", "o", "t", "_", "l", "o", "g", "g", "e", "d", "_", "i", "n",
      "_", "x", "p", "a", "t", "h">> }

\* testing and debugging tags that are ignored
IGNORED_TEST_TAGS ==
  { <<"t", "e", "s", "t">>,
    <<"t", "e", "s", "t", "_", "u", "r", "l">>,
    <<"t", "e", "s", "t", "_", "c", "o", "n", "t", "a", "i", "n", "s">>,
    <<"t", "e", "s", "t", "_", "c", "o", "n", "t", "e", "n", "t">>,
    <<"t", "e", "s", "t", "_", "u", "r", "l", "s">> }

\* other tags that are not processed
IGNORED_OTHER_TAGS ==
  { <<"p", "a", "r", "s", "e", "r">>,
    <<"c", "o", "n", "v", "e", "r", "t", "_", "d", "o", "u", "b", "l",
      "e", "_", "b", "r", "_", "t", "a", "g", "s">>,
    <<"s", "t", "r", "i", "p", "_", "c", "o", "m", "m", "e", "n", "t", "s">>,
    <<"m", "o", "v", "e", "_", "i", "n", "t", "o">>,
    <<"a", "u", "t", "o", "d", "e", "t", "e", "c", "t", "_", "n", "e",
      "x", "t", "_", "p", "a", "g", "e">>,
    <<"d", "i", "s", "s", "o", "l", "v", "e">>,
    <<"f", "o", "o", "t", "n", "o", "t", "e", "s">>,
    <<"s", "k", "i", "p", "_", "i", "d", "_", "o", "r", "_", "c", "l",
      "a", "s", "s">>,
    <<"t", "i", "d", "y">> }

\* boolean parameters
BOOLEAN_TAGS ==
  { <<"p", "r", "u", "n", "e">>,
    <<"a", "u", "t", "o", "d", "e", "t", "e", "c", "t", "_", "o", "n",
      "_", "f", "a", "i", "l", "u", "r", "e">>,
    <<"i", "n", "s", "e", "r", "t", "_", "d", "e", "t", "e", "c", "t",
      "e", "d", "_", "i", "m", "a", "g", "e">>,
    <<"s", "k", "i", "p", "_", "j", "s", "o", "n", "_", "l", "d">> }

STRIP == <<"s", "t", "r", "i", "p">>

STRIP_ATTR == <<"s", "t", "r", "i", "p", "_", "a", "t", "t", "r">>

FIND_STRING == <<"f", "i", "n", "d", "_", "s", "t", "r", "i", "n", "g">>

REPLACE_STRING ==
  <<"r", "e", "p", "l", "a", "c", "e", "_", "s", "t", "r", "i", "n", "g">>

HTTP_HEADER == <<"h", "t", "t", "p", "_", "h", "e", "a", "d", "e", "r">>

WRAP_IN == <<"w", "r", "a", "p", "_", "i", "n">>

YES == <<"y", "e", "s">>

TRUE_LITERAL == <<"t", "r", "u", "e">>

\* the keys whose simple-form values are collected in a list
ARRAY_KEYS ==
  { <<"t", "i", "t", "l", "e">>,
    <<"b", "o", "d", "y">>,
    <<"d", "a", "t", "e">>,
    <<"a", "u", "t", "h", "o", "r">>,
    <<"s", "t", "r", "i", "p">>,
    <<"s", "t", "r", "i", "p", "_", "i", "d", "_", "o", "r", "_", "c",
      "l", "a", "s", "s">>,
    <<"s", "t", "r", "i", "p", "_", "i", "m", "a", "g", "e", "_", "s",
      "r", "c">>,
    <<"s", "i", "n", "g", "l", "e", "_", "p", "a", "g", "e", "_", "l",
      "i", "n", "k">>,
    <<"s", "i", "n", "g", "l", "e", "_", "p", "a", "g", "e", "_", "l",
      "i", "n", "k", "_", "i", "n", "_", "f", "e", "e", "d">>,
    <<"n", "e", "x", "t", "_", "p", "a", "g", "e", "_", "l", "i", "n", "k">>,
    <<"n", "a", "t", "i", "v", "e", "_", "a", "d", "_", "c", "l", "u", "e">>,
    <<"f", "i", "n", "d", "_", "s", "t", "r", "i", "n", "g">>,
    <<"r", "e", "p", "l", "a", "c", "e", "_", "s", "t", "r", "i", "n", "g">>,
    <<"s", "r", "c", "_", "l", "a", "z", "y", "_", "l", "o", "a", "d",
      "_", "a", "t", "t", "r">>,
    <<"i", "f", "_", "p", "a", "g", "e", "_", "c", "o", "n", "t", "a",
      "i", "n", "s">> }

\* the directive names that are not reported as unknown: the selectors and
\* modifiers, the boolean options, the string replacements, the special
\* directives and the ignored tags
KNOWN_DIRECTIVES ==
  ARRAY_KEYS \cup {STRIP_ATTR, HTTP_HEADER, WRAP_IN} \cup BOOLEAN_TAGS
    \cup IGNORED_AUTH_TAGS \cup IGNORED_TEST_TAGS \cup IGNORED_OTHER_TAGS

(***************************************************************************)
(* SiteConfigParser: strings                                               *)
(***************************************************************************)
NEWLINE == "\n"

\* the characters String.prototype.trim removes (of those that occur)
isWhiteSpace(c) == c = " " \/ c = NEWLINE

\* the characters /[a-z_]/i matches
isNameChar(c) ==
  c \in { "a", "b", "c", "d", "e", "f", "g", "h", "i", "j", "k", "l", "m",
          "n", "o", "p", "q", "r", "s", "t", "u", "v", "w", "x", "y", "z",
          "A", "B", "C", "D", "E", "F", "G", "H", "I", "J", "K", "L", "M",
          "N", "O", "P", "Q", "R", "S", "T", "U", "V", "W", "X", "Y", "Z",
          "_" }

\* the smallest and the largest element of a non-empty set of positions
first(positions) == CHOOSE i \in positions : \A j \in positions : i <= j
last(positions) == CHOOSE i \in positions : \A j \in positions : i >= j

\* s.trim()
trim(s) ==
  LET kept == {i \in 1..Len(s) : ~isWhiteSpace(s[i])} IN
    IF kept = {} THEN <<>> ELSE SubSeq(s, first(kept), last(kept))

\* s.includes(p)
includes(s, p) ==
  \E i \in 1..(Len(s) - Len(p) + 1) : SubSeq(s, i, i + Len(p) - 1) = p

\* s.indexOf(c) for a character c: 0-based, -1 when c does not occur
indexOf(s, c) ==
  LET at == {i \in 1..Len(s) : s[i] = c} IN
    IF at = {} THEN -1 ELSE first(at) - 1

\* s.substring(from, to) for 0 <= from <= to <= s.length
substringTo(s, from, to) == SubSeq(s, from + 1, to)

\* content.split('\n')
RECURSIVE split(_)
split(content) ==
  LET i == indexOf(content, NEWLINE) IN
    IF i = -1 THEN <<content>>
    ELSE <<substringTo(content, 0, i)>> \o split(substring(content, i + 1))

\* lines.join('\n')
RECURSIVE join(_)
join(lines) ==
  IF Len(lines) = 0 THEN <<>>
  ELSE IF Len(lines) = 1 THEN lines[1]
  ELSE lines[1] \o <<NEWLINE>> \o join(Tail(lines))

\* trimmed.match(/^([a-z_]+)\(([^)]+)\):(.+)$/i): the name runs to the first
\* '(', the parameter to the first ')' after it, ':' follows and at least
\* one character follows the colon
match(trimmed) ==
  LET open == indexOf(trimmed, "(") + 1
      closes == {i \in (open + 1)..Len(trimmed) : trimmed[i] = ")"}
      close == IF closes = {} THEN 0 ELSE first(closes)
  IN
    IF /\ open >= 2
       /\ \A i \in 1..(open - 1) : isNameChar(trimmed[i])
       /\ close >= open + 2
       /\ Len(trimmed) >= close + 2
       /\ trimmed[close + 1] = ":"
      THEN [matched |-> TRUE,
            directive |-> SubSeq(trimmed, 1, open - 1),
            param |-> SubSeq(trimmed, open + 1, close - 1),
            value |-> SubSeq(trimmed, close + 2, Len(trimmed))]
      ELSE [matched |-> FALSE, directive |-> <<>>, param |-> <<>>,
            value |-> <<>>]

(***************************************************************************)
(* SiteConfigParser: parseConfigFile                                       *)
(***************************************************************************)
\* faulty variant: the configuration starts with an empty title list
newConfig_defaults == [key \in {<<"t", "i", "t", "l", "e">>} |-> <<>>]

\* `const config: Partial<SiteConfig> = {}`
newConfig == [key \in {} |-> <<>>]

\* `!config[key]`: the field is not set (a list or a map is truthy)
isUnset(config, key) == key \notin DOMAIN config

\* faulty variant: the value is put in front of the list
push_front(config, key, value) ==
  setProperty(config, key,
              <<value>> \o (IF isUnset(config, key) THEN <<>> ELSE config[key]))

\* `if (!config[key]) config[key] = []; config[key].push(value)`
push(config, key, value) ==
  setProperty(config, key,
              (IF isUnset(config, key) THEN <<>> ELSE config[key]) \o <<value>>)

\* `if (!config[key]) config[key] = {}; config[key][name] = value`
put(config, key, name, value) ==
  setProperty(config, key,
              setProperty(IF isUnset(config, key) THEN EmptyObject
                                                  ELSE config[key],
                          name, value))

\* faulty variant: the header name is stored as written
headerName_literal(param) == param

\* `param.toLowerCase()`: the key of an http_header entry
headerName(param) == toLowerCase(param)

\* faulty variant: the literals are compared case-sensitively
parseBoolean_caseSensitive(value) == value = YES \/ value = TRUE_LITERAL

\* `value.toLowerCase() === 'yes' || value.toLowerCase() === 'true'`
parseBoolean(value) ==
  toLowerCase(value) = YES \/ toLowerCase(value) = TRUE_LITERAL

\* the three ignored-tag sets
isIgnoredTag(directive) ==
  \/ directive \in IGNORED_AUTH_TAGS
  \/ directive \in IGNORED_TEST_TAGS
  \/ directive \in IGNORED_OTHER_TAGS

\* `${directive}(${param}): ${trimmedValue}`
unknownFunctionLike(directive, param, trimmedValue) ==
  directive \o <<"(">> \o param \o <<")", ":", " ">> \o trimmedValue

\* `${key}: ${value}`
unknownSimple(key, value) == key \o <<":", " ">> \o value

\* a line of the shape directive(param): value
parseFunctionLike(parsed, directive, param, value) ==
  LET trimmedValue == trim(value)
      config == parsed.config
  IN
    IF isIgnoredTag(directive) THEN parsed
    ELSE IF directive = HTTP_HEADER
      THEN [parsed EXCEPT
              !.config = put(config, HTTP_HEADER, headerName(param),
                             trimmedValue)]
    ELSE IF directive = REPLACE_STRING
      THEN [parsed EXCEPT
              !.config = push(push(config, FIND_STRING, param),
                              REPLACE_STRING, trimmedValue)]
    ELSE IF directive = WRAP_IN
      THEN [parsed EXCEPT
              !.config = put(config, WRAP_IN, param, trimmedValue)]
    ELSE IF directive \notin KNOWN_DIRECTIVES
            /\ directive \notin IGNORED_OTHER_TAGS
      THEN [parsed EXCEPT
              !.unknownDirectives =
                 @ \cup {unknownFunctionLike(directive, param, trimmedValue)}]
    ELSE parsed

\* faulty variant: the value of an unknown key is stored in a list
storeSimple_storesUnknown(parsed, key, value) ==
  IF key = STRIP_ATTR
    THEN [parsed EXCEPT !.config = push(parsed.config, STRIP, value)]
  ELSE IF key \in BOOLEAN_TAGS
    THEN [parsed EXCEPT
            !.config = setProperty(parsed.config, key, parseBoolean(value))]
  ELSE IF key \in ARRAY_KEYS \/ key \notin KNOWN_DIRECTIVES
    THEN [parsed EXCEPT !.config = push(parsed.config, key, value)]
  ELSE parsed

\* a key: value line whose key is not an ignored tag
storeSimple(parsed, key, value) ==
  IF key = STRIP_ATTR
    THEN [parsed EXCEPT !.config = push(parsed.config, STRIP, value)]
  ELSE IF key \in ARRAY_KEYS
    THEN [parsed EXCEPT !.config = push(parsed.config, key, value)]
  ELSE IF key \in BOOLEAN_TAGS
    THEN [parsed EXCEPT
            !.config = setProperty(parsed.config, key, parseBoolean(value))]
  ELSE IF key \notin KNOWN_DIRECTIVES
    THEN [parsed EXCEPT
            !.unknownDirectives = @ \cup {unknownSimple(key, value)}]
  ELSE parsed

\* faulty variant: an ignored tag is not skipped but reported as unknown
parseSimple_reportsIgnored(parsed, key, value) ==
  IF key = <<>> \/ value = <<>> THEN parsed
  ELSE IF isIgnoredTag(key)
    THEN [parsed EXCEPT
            !.unknownDirectives = @ \cup {unknownSimple(key, value)}]
  ELSE storeSimple(parsed, key, value)

\* a key: value line, split at the first colon and trimmed
parseSimple(parsed, key, value) ==
  IF key = <<>> \/ value = <<>> THEN parsed
  ELSE IF isIgnoredTag(key) THEN parsed
  ELSE storeSimple(parsed, key, value)

\* the body of `for (const line of lines)`
parseLine(parsed, line) ==
  LET trimmed == trim(line)
      matched == match(trimmed)
      colonIndex == indexOf(trimmed, ":")
  IN
    IF trimmed = <<>> \/ startsWith(trimmed, <<"#">>) THEN parsed
    ELSE IF /\ includes(trimmed, <<"(">>)
            /\ includes(trimmed, <<")", ":">>)
            /\ matched.matched
      THEN parseFunctionLike(parsed, matched.directive, matched.param,
                             matched.value)
    ELSE IF colonIndex # -1
      THEN parseSimple(parsed,
                       trim(substringTo(trimmed, 0, colonIndex)),
                       trim(substring(trimmed, colonIndex + 1)))
    ELSE parsed

\* the loop over the lines, from line i on
RECURSIVE parseLines(_, _, _)
parseLines(parsed, lines, i) ==
  IF i > Len(lines) THEN parsed
  ELSE parseLines(parseLine(parsed, lines[i]), lines, i + 1)

\* faulty variant: the warning is emitted but the lists are kept
cleanUp_warnsOnly(parsed) ==
  LET config == parsed.config IN
    IF /\ ~isUnset(config, FIND_STRING)
       /\ ~isUnset(config, REPLACE_STRING)
       /\ Len(config[FIND_STRING]) # Len(config[REPLACE_STRING])
      THEN [parsed EXCEPT
              !.warnings = @ \o <<[find_size |-> Len(config[FIND_STRING]),
                                   replace_size |-> Len(config[REPLACE_STRING])]>>]
      ELSE parsed

\* the clean-up of find_string and replace_string after the loop
cleanUp(parsed) ==
  LET config == parsed.config IN
    IF /\ ~isUnset(config, FIND_STRING)
       /\ ~isUnset(config, REPLACE_STRING)
       /\ Len(config[FIND_STRING]) # Len(config[REPLACE_STRING])
      THEN [parsed EXCEPT
              !.warnings = @ \o <<[find_size |-> Len(config[FIND_STRING]),
                                   replace_size |-> Len(config[REPLACE_STRING])]>>,
              !.config = setProperty(setProperty(config, FIND_STRING, <<>>),
                                     REPLACE_STRING, <<>>)]
      ELSE parsed

\* parseConfigFile(content, filename): the configuration returned, the
\* unknown directives logged under filename and the warnings emitted
parseConfigFile(content, filename) ==
  LET parsed == cleanUp(parseLines([config |-> newConfig,
                                    unknownDirectives |-> {},
                                    warnings |-> <<>>],
                                   split(content), 1))
  IN [config |-> parsed.config,
      unknownDirectives |-> parsed.unknownDirectives,
      logged |-> IF parsed.unknownDirectives = {} THEN <<>> ELSE <<filename>>,
      warnings |-> parsed.warnings]

(***************************************************************************)
(* SiteConfigParser: the lines of the configuration texts                  *)
(***************************************************************************)
\* a line of white space
BlankLine == <<" ">>

\* a comment, indented
CommentLine == <<" ", "#", "t", "i", "t", "l", "e", ":", "x">>

\* a selector with white space around it
TitleLine == <<" ", "t", "i", "t", "l", "e", ":", " ", "x", " ">>

\* a selector with no value
EmptyTitleLine == <<"t", "i", "t", "l", "e", ":">>

StripLine == <<"s", "t", "r", "i", "p", ":", "x">>

StripAttrLine ==
  <<"s", "t", "r", "i", "p", "_", "a", "t", "t", "r", ":", " ", "y">>

PruneYesLine == <<"p", "r", "u", "n", "e", ":", " ", "y", "e", "S">>

PruneTrueLine == <<"p", "r", "u", "n", "e", ":", " ", "t", "R", "U", "e">>

PruneNoLine == <<"p", "r", "u", "n", "e", ":", "n", "o">>

\* ignored tags, one of each set
ParserLine == <<"p", "a", "r", "s", "e", "r", ":", " ", "x">>

TestUrlLine ==
  <<"t", "e", "s", "t", "_", "u", "r", "l", "(", "x", ")", ":", " ", "y">>

LoginUriLine == <<"l", "o", "g", "i", "n", "_", "u", "r", "i", ":", " ", "x">>

\* function-like directives
HeaderUpperLine ==
  <<"h", "t", "t", "p", "_", "h", "e", "a", "d", "e", "r", "(", "A", "b",
  ")", ":", " ", "x", " ">>

HeaderLowerLine ==
  <<"h", "t", "t", "p", "_", "h", "e", "a", "d", "e", "r", "(", "a", "b",
  ")", ":", " ", "y">>

WrapInLine ==
  <<"w", "r", "a", "p", "_", "i", "n", "(", "A", "b", ")", ":", " ", "x">>

ReplaceFunctionLine ==
  <<"r", "e", "p", "l", "a", "c", "e", "_", "s", "t", "r", "i", "n", "g",
  "(", "x", ")", ":", " ", "y">>

\* the paired simple-form directives
FindStringLine ==
  <<"f", "i", "n", "d", "_", "s", "t", "r", "i", "n", "g", ":", " ", "z">>

ReplaceStringLine ==
  <<"r", "e", "p", "l", "a", "c", "e", "_", "s", "t", "r", "i", "n", "g",
  ":", " ", "w">>

\* a key that is no directive
UnknownLine == <<"u", ":", " ", "x">>

ConfigLines ==
  { BlankLine, CommentLine, TitleLine,
    EmptyTitleLine, StripLine, StripAttrLine,
    PruneYesLine, PruneTrueLine, PruneNoLine,
    ParserLine, TestUrlLine, LoginUriLine,
    HeaderUpperLine, HeaderLowerLine, WrapInLine,
    ReplaceFunctionLine, FindStringLine, ReplaceStringLine,
    UnknownLine }

\* directives with nothing after the colon
ReplaceStringEmptyLine ==
  <<"r", "e", "p", "l", "a", "c", "e", "_", "s", "t", "r", "i", "n", "g",
  ":", " ">>

ReplaceFunctionEmptyLine ==
  <<"r", "e", "p", "l", "a", "c", "e", "_", "s", "t", "r", "i", "n", "g",
  "(", "x", ")", ":", " ">>

HeaderEmptyLine ==
  <<"h", "t", "t", "p", "_", "h", "e", "a", "d", "e", "r", "(", "a", "b",
  ")", ":">>

WrapInEmptyLine ==
  <<"w", "r", "a", "p", "_", "i", "n", "(", "A", "b", ")", ":", " ">>

\* lines that are no directive
NoColonLine == <<"t", "i", "t", "l", "e", " ", "x">>

EmptyKeyLine == <<":", " ", "x">>

\* the special directives without a parameter
SimpleHeaderLine ==
  <<"h", "t", "t", "p", "_", "h", "e", "a", "d", "e", "r", ":", " ", "x">>

SimpleWrapInLine == <<"w", "r", "a", "p", "_", "i", "n", ":", " ", "x">>

\* function-like lines with other names
TitleFunctionLine == <<"t", "i", "t", "l", "e", "(", "x", ")", ":", " ", "y">>

UnknownFunctionLine == <<"u", "(", "x", ")", ":", " ", "y">>

\* a function-like name not written in lower case
MixedCaseWrapInLine ==
  <<"w", "R", "A", "p", "_", "i", "n", "(", "A", "b", ")", ":", " ", "y">>

\* the lines of the texts with empty values, malformed lines and other names
EdgeLines ==
  { TitleLine, FindStringLine, ReplaceStringLine,
    ReplaceFunctionLine, WrapInLine, UnknownLine,
    ReplaceStringEmptyLine, ReplaceFunctionEmptyLine, HeaderEmptyLine,
    WrapInEmptyLine, NoColonLine, EmptyKeyLine,
    SimpleHeaderLine, SimpleWrapInLine, TitleFunctionLine,
    UnknownFunctionLine, MixedCaseWrapInLine }

(***************************************************************************)
(* Initial states: the index the build script wrote, nothing called yet    *)
(***************************************************************************)
NoCall == [op |-> "none", hostname |-> <<>>, result |-> NULL]

InitIndex ==
  \E files \in FileLists :
    LET siteIndex == buildSiteIndex(files) IN
      /\ domains = siteIndex.domains
      /\ wildcards = siteIndex.wildcards
      /\ specificSubdomains = siteIndex.specificSubdomains

NoCompletion ==
  [hostname |-> <<>>, status |-> "none", value |-> undefined,
   importFailed |-> FALSE]

\* what happened since the last clearCache(): whether getConfigForHost was
\* not called yet, and the configurations that completed calls returned
NothingSinceClear ==
  [cleared |-> FALSE, completed |-> EmptyObject]

NoPreload ==
  [state |-> "none", hostnames |-> {}, waiting |-> {},
   clearedDuring |-> FALSE]

\* `new SiteConfigManager()`: cache = {} and loading = {}
InitManager ==
  /\ cache = EmptyObject
  /\ loading = EmptyObject
  /\ completion = NoCompletion
  /\ sinceClear = NothingSinceClear
  /\ preload = NoPreload

InitResolver ==
  /\ InitIndex
  /\ InitManager
  /\ input \in Hostnames
  /\ call = NoCall

(***************************************************************************)
(* Resolution calls                                                        *)
(***************************************************************************)
CallGetConfigKeyForHost ==
  /\ call' = [op |-> "getConfigKeyForHost", hostname |-> input,
              result |-> getConfigKeyForHost(input)]
  /\ UNCHANGED <<index, input, cache, loading, completion, sinceClear, preload>>

CallHasConfigForHost ==
  /\ call' = [op |-> "hasConfigForHost", hostname |-> input,
              result |-> hasConfigForHost(input)]
  /\ UNCHANGED <<index, input, cache, loading, completion, sinceClear, preload>>

CallHasConfig ==
  /\ call' = [op |-> "hasConfig", hostname |-> input, result |-> hasConfig(input)]
  /\ UNCHANGED <<index, input, cache, loading, completion, sinceClear, preload>>

NextResolver ==
  \/ CallGetConfigKeyForHost
  \/ CallHasConfigForHost
  \/ CallHasConfig

SpecResolver == InitResolver /\ [][NextResolver]_vars

(***************************************************************************)
(* The manager in use: calls, load completions, clearCache                 *)
(***************************************************************************)
\* hostnames the callers of the manager ask for
ManagerHostnames ==
  { AB \o DOT \o B, toUpperCase(AB \o DOT \o B), WWW_DOT \o AB \o DOT \o B,
    CONSTRUCTOR }

\* the configuration files that decide how these hostnames resolve
ManagerConfigFiles ==
  { AB \o DOT \o B, DOT \o B, WWW_DOT \o AB \o DOT \o B }

ManagerFileLists ==
  {fs \in FileLists : \A i \in DOMAIN fs : fs[i] \in ManagerConfigFiles}

\* the hostnames handed to preloadConfigs: one spelling of each hostname
PreloadHostnames ==
  { toUpperCase(AB \o DOT \o B), WWW_DOT \o AB \o DOT \o B, CONSTRUCTOR }

\* the hostname lists handed to preloadConfigs
PreloadLists ==
  UNION {[1..n -> PreloadHostnames] : n \in 0..MaxPreload}

InitManagerIndex ==
  \E files \in ManagerFileLists :
    LET siteIndex == buildSiteIndex(files) IN
      /\ domains = siteIndex.domains
      /\ wildcards = siteIndex.wildcards
      /\ specificSubdomains = siteIndex.specificSubdomains

Init ==
  /\ InitManagerIndex
  /\ InitManager
  /\ input = <<>>
  /\ call = NoCall

\* the configuration already served for a hostname since the last clearCache()
servedSinceClear(hostname) ==
  IF hostname \in DOMAIN sinceClear.completed
    THEN sinceClear.completed[hostname] ELSE undefined

\* the record of a completed call for a resolvable hostname
noteCompleted(completed, hostname, value) ==
  IF getConfigKeyForHost(hostname) # NULL
    THEN setProperty(completed, hostname, value) ELSE completed

\* a call of getConfigForHost(h), up to the promise it returns
CallGetConfigForHost ==
  \E h \in ManagerHostnames :
    LET r == getConfigForHost(h)
        asked == toLowerCase(h)
    IN
      /\ call' = [op |-> "getConfigForHost", hostname |-> h, result |-> r]
      /\ loading' =
           IF r.path = "load"
             THEN setProperty(loading, r.hostname,
                              [configKey |-> r.configKey, state |-> "pending"])
             ELSE loading
      /\ completion' =
           IF r.path \in {"cache", "global"}
             THEN [hostname |-> r.hostname, status |-> "fulfilled",
                   value |-> r.value, importFailed |-> FALSE]
           ELSE IF r.path = "loading" /\ r.value.state = "rejected"
             THEN [hostname |-> r.hostname, status |-> "rejected",
                   value |-> undefined, importFailed |-> TRUE]
           ELSE NoCompletion
      /\ sinceClear' =
           [sinceClear EXCEPT
              !.cleared = FALSE,
              !.completed = IF r.path \in {"cache", "global"}
                              THEN noteCompleted(@, asked, r.value) ELSE @]
      /\ UNCHANGED <<index, cache, input, preload>>

\* the promise of loadConfig for hostname settles and the then-callback of
\* getConfigForHost runs: cache[hostname] = config; delete loading[hostname]
LoadConfigSettlesFor(hostname) ==
  \E importOk \in BOOLEAN :
    /\ hostname \in DOMAIN loading
    /\ loading[hostname].state = "pending"
    /\ LET settled == loadConfig(loading[hostname].configKey, importOk)
           awaited == preload.state = "pending" /\ hostname \in preload.waiting
       IN
         IF settled.status = "fulfilled"
           THEN /\ cache' = cacheLoaded(cache, hostname, settled.value)
                /\ loading' = deleteProperty(loading, hostname)
                /\ completion' = [hostname |-> hostname, status |-> "fulfilled",
                                  value |-> settled.value,
                                  importFailed |-> ~importOk]
                /\ sinceClear' =
                     [sinceClear EXCEPT
                        !.completed = noteCompleted(@, toLowerCase(hostname),
                                                    settled.value)]
                /\ preload' =
                     IF awaited
                       THEN [preload EXCEPT !.waiting = @ \ {hostname}]
                       ELSE preload
           ELSE /\ cache' = cache
                /\ loading' = [loading EXCEPT ![hostname].state = "rejected"]
                /\ completion' = [hostname |-> hostname, status |-> "rejected",
                                  value |-> undefined, importFailed |-> TRUE]
                /\ sinceClear' = sinceClear
                /\ preload' =
                     IF awaited
                       THEN [preload EXCEPT !.state = "rejected"]
                       ELSE preload
    /\ call' = NoCall
    /\ UNCHANGED <<index, input>>

\* one of the pending loads settles
LoadConfigSettles ==
  \E hostname \in DOMAIN loading : LoadConfigSettlesFor(hostname)

\* clearCache(): this.cache = {}
ClearCache ==
  /\ cache' = EmptyObject
  /\ sinceClear' = [cleared |-> TRUE, completed |-> EmptyObject]
  /\ preload' =
       IF preload.state = "pending"
         THEN [preload EXCEPT !.clearedDuring = TRUE]
       ELSE IF preload.state = "done"
         THEN NoPreload
       ELSE preload
  /\ call' = [op |-> "clearCache", hostname |-> <<>>, result |-> NULL]
  /\ completion' = NoCompletion
  /\ UNCHANGED <<index, loading, input>>

\* hostnames.map(hostname => this.getConfigForHost(hostname)), from position
\* i on: acc carries this.loading, the promises still pending, whether one
\* is already rejected, and the calls that completed at once
RECURSIVE preloadMap(_, _, _)
preloadMap(hostnames, i, acc) ==
  IF i > Len(hostnames) THEN acc
  ELSE
    LET r == getConfigForHostIn(cache, acc.loading, hostnames[i])
        asked == toLowerCase(hostnames[i])
    IN preloadMap(hostnames, i + 1,
         [loading |->
            IF r.path = "load"
              THEN setProperty(acc.loading, r.hostname,
                               [configKey |-> r.configKey, state |-> "pending"])
              ELSE acc.loading,
          waiting |->
            IF r.path = "load" \/ (r.path = "loading" /\ r.value.state = "pending")
              THEN acc.waiting \cup {r.hostname} ELSE acc.waiting,
          rejected |->
            acc.rejected \/ (r.path = "loading" /\ r.value.state = "rejected"),
          completed |->
            IF r.path \in {"cache", "global"}
              THEN noteCompleted(acc.completed, asked, r.value)
              ELSE acc.completed])

\* preloadConfigs(hostnames), up to `await Promise.all(promises)`; one
\* preloadConfigs call is followed at a time
CallPreloadConfigs ==
  \E hostnames \in PreloadLists :
    /\ preload.state # "pending"
    /\ LET acc == preloadMap(hostnames, 1,
                    [loading |-> loading, waiting |-> {}, rejected |-> FALSE,
                     completed |-> sinceClear.completed])
           asked == {toLowerCase(hostnames[i]) : i \in 1..Len(hostnames)}
       IN
         /\ loading' = acc.loading
         /\ preload' = [state |-> IF acc.rejected THEN "rejected" ELSE "pending",
                        hostnames |-> asked, waiting |-> acc.waiting,
                        clearedDuring |-> FALSE]
         /\ sinceClear' = [cleared |-> sinceClear.cleared /\ hostnames = <<>>,
                          completed |-> acc.completed]
         /\ call' = [op |-> "preloadConfigs", hostname |-> <<>>,
                     result |-> NULL]
    /\ completion' = NoCompletion
    /\ UNCHANGED <<index, cache, input>>

\* Promise.all(promises) is fulfilled: preloadConfigs returns
PreloadCompletes ==
  /\ preload.state = "pending"
  /\ preload.waiting = {}
  /\ preload' = [preload EXCEPT !.state = "done"]
  /\ call' = NoCall
  /\ completion' = NoCompletion
  /\ UNCHANGED <<index, cache, loading, input, sinceClear>>

Next ==
  \/ CallGetConfigForHost
  \/ LoadConfigSettles
  \/ ClearCache
  \/ CallPreloadConfigs
  \/ PreloadCompletes

Spec == Init /\ [][Next]_vars

\* the hostnames that can be keys of this.loading
LoadingHostnames == {normalizeHostname(h) : h \in ManagerHostnames}

\* the file lists of the indexes the fair manager is started with: one
\* that resolves every hostname asked for, one that leaves 'ab.b' unresolved
FairFileLists == {<<AB \o DOT \o B, WWW_DOT \o AB \o DOT \o B>>,
                  <<WWW_DOT \o AB \o DOT \o B>>}

InitFair ==
  /\ \E files \in FairFileLists :
       LET siteIndex == buildSiteIndex(files) IN
         /\ domains = siteIndex.domains
         /\ wildcards = siteIndex.wildcards
         /\ specificSubdomains = siteIndex.specificSubdomains
  /\ InitManager
  /\ input = <<>>
  /\ call = NoCall

\* the manager when every dynamic import settles: a pending loadConfig
\* promise does not stay pending forever
SpecFair ==
  /\ InitFair
  /\ [][Next]_vars
  /\ \A hostname \in LoadingHostnames : WF_vars(LoadConfigSettlesFor(hostname))

(***************************************************************************)
(* The parser in use: parseConfigFile applied to a configuration text      *)
(***************************************************************************)
\* the configuration texts: up to MaxLines lines joined by line feeds
ConfigTexts ==
  {join(lines) : lines \in UNION {[1..n -> ConfigLines] : n \in 0..MaxLines}}

\* the name the text is parsed under
FILENAME == <<"t", "e", "s", "t">>

InitParser ==
  /\ domains = EmptySiteIndex.domains
  /\ wildcards = EmptySiteIndex.wildcards
  /\ specificSubdomains = EmptySiteIndex.specificSubdomains
  /\ InitManager
  /\ input \in ConfigTexts
  /\ call = NoCall

CallParseConfigFile ==
  /\ call' = [op |-> "parseConfigFile", hostname |-> FILENAME,
              result |-> parseConfigFile(input, FILENAME)]
  /\ UNCHANGED <<index, input, cache, loading, completion, sinceClear, preload>>

NextParser == CallParseConfigFile

SpecParser == InitParser /\ [][NextParser]_vars

\* the texts of up to MaxLines of the lines with empty values, malformed
\* lines and other names
EdgeTexts ==
  {join(lines) : lines \in UNION {[1..n -> EdgeLines] : n \in 0..MaxLines}}

InitParserEdge ==
  /\ domains = EmptySiteIndex.domains
  /\ wildcards = EmptySiteIndex.wildcards
  /\ specificSubdomains = EmptySiteIndex.specificSubdomains
  /\ InitManager
  /\ input \in EdgeTexts
  /\ call = NoCall

SpecParserEdge == InitParserEdge /\ [][NextParser]_vars

(***************************************************************************)
(* Properties of hostname resolution (checked under SpecResolver)          *)
(***************************************************************************)
Resolved == call.op = "getConfigKeyForHost"

\* positions of the wildcards that match the lower-cased hostname l:
\* l ends with S, l # S and l # 'www.' + S
MatchingWildcards(l) ==
  {i \in 1..Len(wildcards) :
     LET S == substring(wildcards[i], 1) IN
       endsWith(l, S) /\ l # S /\ l # WWW_DOT \o S}

FirstOf(positions) == CHOOSE i \in positions : \A j \in positions : i <= j

\* the key the five-step precedence order names for hostname h
PrecedenceKey(h) ==
  LET l == toLowerCase(h) IN
    IF l \in domains THEN l
    ELSE IF startsWith(l, WWW_DOT) /\ substring(l, 4) \in domains
      THEN substring(l, 4)
    ELSE IF l \in specificSubdomains THEN l
    ELSE IF MatchingWildcards(l) # {} THEN wildcards[FirstOf(MatchingWildcards(l))]
    ELSE NULL

\* C1: getConfigKeyForHost(h) is the first match in the order domain key,
\* www.-stripped domain key, specific-subdomain key, first matching wildcard,
\* null.
C1_PrecedenceOrder ==
  Resolved => call.result = PrecedenceKey(call.hostname)

\* C2 as stated: for every key K of domains, both K and 'www.' + K resolve
\* to K.
C2_WwwAlwaysResolvesToKey ==
  Resolved =>
    \A K \in domains :
      (call.hostname = K \/ call.hostname = WWW_DOT \o K) => call.result = K

\* C2 amended: for every key K of domains, K resolves to K, and 'www.' + K
\* resolves to K unless 'www.' + K is itself a key of domains, in which case
\* it resolves to itself.
C2_WwwResolvesToKeyUnlessDomain ==
  Resolved =>
    \A K \in domains :
      /\ call.hostname = K => call.result = K
      /\ call.hostname = WWW_DOT \o K =>
           call.result = (IF WWW_DOT \o K \in domains THEN WWW_DOT \o K ELSE K)

C2_Witness ==
  /\ Resolved
  /\ \E K \in domains :
       /\ call.hostname = WWW_DOT \o K
       /\ WWW_DOT \o K \notin domains
       /\ call.result = K

\* the hostname h is 'x.' + S for a non-empty x other than www
IsSubdomainOf(h, S) ==
  /\ Len(h) > Len(S) + 1
  /\ endsWith(h, DOT \o S)
  /\ h # WWW_DOT \o S

\* C3: a wildcard key '.S' is never returned for the hostname S or
\* 'www.' + S, and it is returned for a hostname 'x.' + S that matches no
\* domain, www.-stripped domain, specific subdomain or earlier wildcard.
C3_WildcardExcludesBareAndWww ==
  Resolved =>
    \A i \in 1..Len(wildcards) :
      LET S == substring(wildcards[i], 1)
          h == call.hostname
      IN /\ (h = S \/ h = WWW_DOT \o S) => call.result # wildcards[i]
         /\ ( /\ IsSubdomainOf(h, S)
              /\ h \notin domains
              /\ ~(startsWith(h, WWW_DOT) /\ substring(h, 4) \in domains)
              /\ h \notin specificSubdomains
              /\ \A j \in MatchingWildcards(h) : j >= i )
            => call.result = wildcards[i]

C3_Witness ==
  /\ Resolved
  /\ \E i \in 1..Len(wildcards) :
       /\ IsSubdomainOf(call.hostname, substring(wildcards[i], 1))
       /\ call.result = wildcards[i]
       /\ i > 1

\* C4: whenever the wildcard key '.S' is returned, the lower-cased hostname
\* ends with '.' + S.
C4_WildcardMatchesWholeLabels ==
  Resolved =>
    \A i \in 1..Len(wildcards) :
      call.result = wildcards[i] =>
        endsWith(toLowerCase(call.hostname), wildcards[i])

\* C5 as stated: every key K of specificSubdomains resolves to K itself.
C5_SubdomainNeverShadowed ==
  Resolved =>
    (call.hostname \in specificSubdomains => call.result = call.hostname)

\* C5 amended: a key K of specificSubdomains resolves to K itself, except
\* that a K starting with 'www.' whose remainder is a key of domains resolves
\* to that domain key; no wildcard ever shadows K.
C5_SubdomainShadowedOnlyByWwwDomain ==
  Resolved =>
    LET K == call.hostname IN
      K \in specificSubdomains =>
        call.result = (IF startsWith(K, WWW_DOT) /\ substring(K, 4) \in domains
                       THEN substring(K, 4) ELSE K)

C5_Witness ==
  /\ Resolved
  /\ call.hostname \in specificSubdomains
  /\ call.result = call.hostname
  /\ MatchingWildcards(call.hostname) # {}

\* C6: whenever the returned key belongs to specificSubdomains, the
\* lower-cased hostname equals that key.
C6_SubdomainMatchesExactHostOnly ==
  Resolved =>
    (call.result \in specificSubdomains =>
       toLowerCase(call.hostname) = call.result)

C6_Witness ==
  /\ Resolved
  /\ call.result \in specificSubdomains
  /\ call.hostname # call.result

\* C7: hasConfigForHost(H) is true exactly when getConfigKeyForHost(H) is not
\* null, and the generated hasConfig(H) returns the same boolean.
C7_HasConfigAgrees ==
  /\ call.op = "hasConfigForHost" =>
       call.result = (getConfigKeyForHost(call.hostname) # NULL)
  /\ call.op = "hasConfig" =>
       call.result = (getConfigKeyForHost(call.hostname) # NULL)

C7_Witness ==
  /\ call.op = "hasConfig"
  /\ call.result = TRUE
  /\ startsWith(toLowerCase(call.hostname), WWW_DOT)
  /\ getConfigKeyForHost(call.hostname) = substring(toLowerCase(call.hostname), 4)

C9_UnresolvedGetsGlobalDefault ==
  (call.op = "getConfigForHost" /\ getConfigKeyForHost(call.hostname) = NULL) =>
    /\ call.result.path = "global"
    /\ call.result.value.kind = "global"

C9_Witness ==
  /\ call.op = "getConfigForHost"
  /\ getConfigKeyForHost(call.hostname) = NULL
  /\ call.result.path = "global"
  /\ cache # EmptyObject

\* C10: no getConfigForHost promise is ever rejected, and when the import of
\* the resolved key fails the promise is fulfilled with the global default
\* configuration.
C10_NeverFails ==
  /\ completion.status # "rejected"
  /\ completion.importFailed =>
       completion.status = "fulfilled" /\ completion.value.kind = "global"

C10_Witness ==
  /\ completion.importFailed
  /\ completion.status = "fulfilled"
  /\ completion.value.kind = "global"

(***************************************************************************)
(* Properties of the cache                                                 *)
(***************************************************************************)
\* C11: once a getConfigForHost call for a resolvable hostname has
\* completed, every getConfigForHost call for a hostname with the same
\* lower-case form, made with no clearCache() in between, is answered from
\* the cache with the identical configuration object and without loadConfig.
C11_CachedByNormalisedHostname ==
  \A h \in ManagerHostnames :
    LET served == servedSinceClear(toLowerCase(h)) IN
      served # undefined =>
        /\ getConfigForHost(h).path = "cache"
        /\ getConfigForHost(h).value = served

\* an upper-case spelling was answered from the cache with the object a
\* completed load stored under the lower-case hostname
C11_Witness ==
  /\ call.op = "getConfigForHost"
  /\ call.hostname # toLowerCase(call.hostname)
  /\ getConfigKeyForHost(call.hostname) # NULL
  /\ call.result.path = "cache"
  /\ call.result.value.kind \in {"site", "global"}
  /\ call.result.value = cache[toLowerCase(call.hostname)]

\* C12 (as stated): when clearCache() has returned, the next
\* getConfigForHost(h) for a resolvable h invokes loadConfig, whatever calls
\* and load completions came before the clear.
C12_ClearCacheForcesReload ==
  \A h \in ManagerHostnames :
    (sinceClear.cleared /\ getConfigKeyForHost(h) # NULL) =>
      getConfigForHost(h).path = "load"

\* the resolvable hostnames of the preloadConfigs list
PreloadedHosts ==
  {hostname \in preload.hostnames : getConfigKeyForHost(hostname) # NULL}

\* every resolvable hostname of the list is in the cache and a
\* getConfigForHost call for it does not invoke loadConfig
PreloadedAreCached ==
  /\ \A hostname \in PreloadedHosts : isTruthyProperty(DOMAIN cache, hostname)
  /\ \A h \in ManagerHostnames :
       toLowerCase(h) \in PreloadedHosts => getConfigForHost(h).path # "load"

\* C13 (as stated): preloadConfigs never fails, and once it has completed,
\* with no clearCache() after its completion, every resolvable hostname of
\* the list is cached.
C13_PreloadFillsCache ==
  /\ preload.state # "rejected"
  /\ preload.state = "done" => PreloadedAreCached

\* C13 (amended): preloadConfigs never fails, and once it has completed,
\* with no clearCache() since preloadConfigs was called, every resolvable
\* hostname of the list is cached.
C13_PreloadFillsCacheUnlessCleared ==
  /\ preload.state # "rejected"
  /\ (preload.state = "done" /\ ~preload.clearedDuring) => PreloadedAreCached

\* a preloadConfigs call for two resolvable hostnames has completed without
\* a clearCache() and both loads are stored in the cache
C13_Witness ==
  /\ preload.state = "done"
  /\ ~preload.clearedDuring
  /\ Cardinality(PreloadedHosts) = 2
  /\ PreloadedHosts \subseteq DOMAIN cache

(***************************************************************************)
(* Properties of the parser                                                *)
(***************************************************************************)
Parsed == call.op = "parseConfigFile"

\* how the format reads one trimmed line: a comment or blank line, a line of
\* the function-like shape name(param): value, a line of the simple shape
\* key: value with a key and a value, or none of these
Reading(trimmed) ==
  LET colon == indexOf(trimmed, ":")
      key == trim(substringTo(trimmed, 0, colon))
      value == trim(substring(trimmed, colon + 1))
  IN
    IF trimmed = <<>> \/ startsWith(trimmed, <<"#">>)
      THEN [shape |-> "blank", name |-> <<>>, param |-> <<>>, value |-> <<>>]
    ELSE IF match(trimmed).matched
      THEN [shape |-> "function", name |-> match(trimmed).directive,
            param |-> match(trimmed).param,
            value |-> trim(match(trimmed).value)]
    ELSE IF colon # -1 /\ key # <<>> /\ value # <<>>
      THEN [shape |-> "simple", name |-> key, param |-> <<>>, value |-> value]
    ELSE [shape |-> "malformed", name |-> <<>>, param |-> <<>>, value |-> <<>>]

\* the readings of the lines of the text, in source order
SourceReadings ==
  LET lines == split(input) IN
    [i \in 1..Len(lines) |-> Reading(trim(lines[i]))]

\* the readings with the given shape and name, in source order
ReadingsOf(readings, shape, names) ==
  SelectSeq(readings, LAMBDA r : r.shape = shape /\ r.name \in names)

\* the field a reading stores into, if any
StoresInto(r, field) ==
  \/ /\ r.shape = "simple"
     /\ \/ r.name = field /\ field \in ARRAY_KEYS \cup BOOLEAN_TAGS
        \/ r.name = STRIP_ATTR /\ field = STRIP
  \/ /\ r.shape = "function"
     /\ \/ r.name = field /\ field \in {HTTP_HEADER, WRAP_IN}
        \/ r.name = REPLACE_STRING /\ field \in {FIND_STRING, REPLACE_STRING}

SelectorListKeys == ARRAY_KEYS \ {FIND_STRING, REPLACE_STRING}

\* the values of the simple-form lines with one of the given keys
ValuesOf(readings, names) ==
  LET of == ReadingsOf(readings, "simple", names) IN
    [i \in 1..Len(of) |-> of[i].value]

\* C15: every selector list is the sequence of the trimmed values of the
\* simple-form lines with its key, in source order (a key without lines is
\* absent); strip also takes the strip_attr lines in their place, and there
\* is no strip_attr field.
C15_SelectorListsInSourceOrder ==
  Parsed =>
    LET readings == SourceReadings
        config == call.result.config
    IN
      /\ \A key \in SelectorListKeys :
           LET values == ValuesOf(readings,
                                  IF key = STRIP THEN {STRIP, STRIP_ATTR}
                                                 ELSE {key})
           IN IF values = <<>> THEN key \notin DOMAIN config
              ELSE key \in DOMAIN config /\ config[key] = values
      /\ STRIP_ATTR \notin DOMAIN config

\* a strip_attr line followed by a strip line gave the strip list in that
\* order
C15_Witness ==
  /\ Parsed
  /\ STRIP \in DOMAIN call.result.config
  /\ call.result.config[STRIP] = << <<"y">>, <<"x">> >>
  /\ STRIP_ATTR \notin DOMAIN call.result.config

\* C16: a boolean flag is set by the last simple-form line with its key and
\* a non-empty value: true when the value is 'yes' or 'true' in any letter
\* case, false otherwise; a flag without such a line is absent.
C16_BooleanFlags ==
  Parsed =>
    LET readings == SourceReadings
        config == call.result.config
    IN
      \A key \in BOOLEAN_TAGS :
        LET values == ValuesOf(readings, {key}) IN
          IF values = <<>> THEN key \notin DOMAIN config
          ELSE /\ key \in DOMAIN config
               /\ config[key] = (toLowerCase(values[Len(values)])
                                   \in {YES, TRUE_LITERAL})

\* a flag was set to true by a value that is not written in lower case,
\* after a line that set it to false
C16_Witness ==
  /\ Parsed
  /\ \E key \in BOOLEAN_TAGS \cap DOMAIN call.result.config :
       LET values == ValuesOf(SourceReadings, {key}) IN
         /\ call.result.config[key] = TRUE
         /\ Len(values) = 2
         /\ toLowerCase(values[1]) \notin {YES, TRUE_LITERAL}
         /\ values[2] # toLowerCase(values[2])

\* a line whose name is an ignored tag, in either shape
IsIgnoredReading(r) ==
  /\ r.shape \in {"simple", "function"}
  /\ r.name \in IGNORED_AUTH_TAGS \cup IGNORED_TEST_TAGS \cup IGNORED_OTHER_TAGS

\* the text without its ignored-tag lines
WithoutIgnored ==
  join(SelectSeq(split(input), LAMBDA line : ~IsIgnoredReading(Reading(trim(line)))))

\* C17: the lines whose name is an ignored tag, in the simple and in the
\* function-like shape, change neither the configuration nor the unknown
\* directives: the text without them gives the same result, and a text of
\* such lines only gives a configuration with no field.
C17_IgnoredTagsDropped ==
  Parsed =>
    LET readings == SourceReadings
        without == parseConfigFile(WithoutIgnored, FILENAME)
    IN
      /\ call.result.config = without.config
      /\ call.result.unknownDirectives = without.unknownDirectives
      /\ (\A i \in DOMAIN readings : IsIgnoredReading(readings[i]))
           => /\ DOMAIN call.result.config = {}
              /\ call.result.unknownDirectives = {}

\* a text with an ignored tag in each shape and an unknown key was parsed:
\* only the unknown key is reported
C17_Witness ==
  /\ Parsed
  /\ \E i, j \in DOMAIN SourceReadings :
       /\ IsIgnoredReading(SourceReadings[i])
       /\ SourceReadings[i].shape = "simple"
       /\ IsIgnoredReading(SourceReadings[j])
       /\ SourceReadings[j].shape = "function"
  /\ Cardinality(call.result.unknownDirectives) = 1

\* the map the function-like lines with the given name build when each
\* parameter is stored under nameOf(parameter)
MapOf(readings, name, nameOf(_)) ==
  LET of == ReadingsOf(readings, "function", {name}) IN
    [n \in {nameOf(of[i].param) : i \in 1..Len(of)} |->
       of[last({i \in 1..Len(of) : nameOf(of[i].param) = n})].value]

\* the parameter as written
Literal(param) == param

\* C18: http_header holds, under the lower-cased name of every
\* http_header(Name): Value line, the trimmed value of the last line with
\* that name in any letter case; wrap_in holds the value of the last
\* wrap_in(Selector): V line under the selector as written.
C18_HeaderAndWrapInMaps ==
  Parsed =>
    LET readings == SourceReadings
        config == call.result.config
        headers == MapOf(readings, HTTP_HEADER, toLowerCase)
        wraps == MapOf(readings, WRAP_IN, Literal)
    IN
      /\ IF DOMAIN headers = {} THEN HTTP_HEADER \notin DOMAIN config
         ELSE HTTP_HEADER \in DOMAIN config /\ config[HTTP_HEADER] = headers
      /\ IF DOMAIN wraps = {} THEN WRAP_IN \notin DOMAIN config
         ELSE WRAP_IN \in DOMAIN config /\ config[WRAP_IN] = wraps

\* two http_header lines whose names differ in case only left one entry,
\* with the value of the second, and a wrap_in line kept its upper-case
\* selector
C18_Witness ==
  /\ Parsed
  /\ HTTP_HEADER \in DOMAIN call.result.config
  /\ call.result.config[HTTP_HEADER] = [n \in {<<"a", "b">>} |-> <<"y">>]
  /\ Len(ReadingsOf(SourceReadings, "function", {HTTP_HEADER})) = 2
  /\ WRAP_IN \in DOMAIN call.result.config
  /\ DOMAIN call.result.config[WRAP_IN] = {<<"A", "b">>}

\* C19 (as stated): when the lists are kept, the Find of every
\* replace_string(Find): Replace line is in find_string at an index at
\* which replace_string holds its Replace, whatever simple-form find_string
\* and replace_string lines the text has besides.
C19_ReplaceStringPairsAligned ==
  Parsed =>
    LET pairs == ReadingsOf(SourceReadings, "function", {REPLACE_STRING})
        config == call.result.config
    IN
      (/\ FIND_STRING \in DOMAIN config
       /\ REPLACE_STRING \in DOMAIN config
       /\ call.result.warnings = <<>>)
        => \A i \in 1..Len(pairs) :
             \E k \in 1..Len(config[FIND_STRING]) :
               /\ k <= Len(config[REPLACE_STRING])
               /\ config[FIND_STRING][k] = pairs[i].param
               /\ config[REPLACE_STRING][k] = pairs[i].value

\* C20 (as stated): a text with one find_string: line and no replace_string
\* line gives find_string and replace_string both present and empty, and a
\* size-mismatch warning.
C20_LoneFindStringIsReset ==
  LET readings == SourceReadings
      config == call.result.config
  IN
    (/\ Parsed
     /\ Len(ReadingsOf(readings, "simple", {FIND_STRING})) = 1
     /\ Len(ReadingsOf(readings, "simple", {REPLACE_STRING})) = 0
     /\ Len(ReadingsOf(readings, "function", {REPLACE_STRING})) = 0)
      => /\ FIND_STRING \in DOMAIN config
         /\ config[FIND_STRING] = <<>>
         /\ REPLACE_STRING \in DOMAIN config
         /\ config[REPLACE_STRING] = <<>>
         /\ call.result.warnings # <<>>

(***************************************************************************)
(* Properties of the parser on empty values, malformed lines and other     *)
(* names (checked under SpecParserEdge)                                    *)
(***************************************************************************)
\* C21: when the lines store different numbers of find_string and
\* replace_string entries, both non-zero, both lists are returned empty and
\* one warning carries the two sizes; otherwise there is no warning. So two
\* lists that are both present have the same length.
C21_MismatchResetsBothLists ==
  Parsed =>
    LET readings == SourceReadings
        config == call.result.config
        pairs == Len(ReadingsOf(readings, "function", {REPLACE_STRING}))
        finds == pairs + Len(ReadingsOf(readings, "simple", {FIND_STRING}))
        replaces == pairs + Len(ReadingsOf(readings, "simple", {REPLACE_STRING}))
    IN
      /\ (FIND_STRING \in DOMAIN config /\ REPLACE_STRING \in DOMAIN config)
           => Len(config[FIND_STRING]) = Len(config[REPLACE_STRING])
      /\ IF finds > 0 /\ replaces > 0 /\ finds # replaces
           THEN /\ config[FIND_STRING] = <<>>
                /\ config[REPLACE_STRING] = <<>>
                /\ call.result.warnings =
                     <<[find_size |-> finds, replace_size |-> replaces]>>
           ELSE call.result.warnings = <<>>

\* a function-form pair and one more find_string line were parsed: both
\* lists are empty and the warning reports 2 and 1
C21_Witness ==
  /\ Parsed
  /\ call.result.warnings = <<[find_size |-> 2, replace_size |-> 1]>>
  /\ call.result.config[FIND_STRING] = <<>>
  /\ call.result.config[REPLACE_STRING] = <<>>
  /\ Len(ReadingsOf(SourceReadings, "function", {REPLACE_STRING})) = 1

\* C22 (as stated): 'find_string: X' followed by 'replace_string: ' with
\* nothing after the colon gives find_string == [X] and
\* replace_string == [''].
C22_EmptySimpleReplaceRecorded ==
  (Parsed /\ input = join(<<FindStringLine, ReplaceStringEmptyLine>>)) =>
    LET config == call.result.config IN
      /\ FIND_STRING \in DOMAIN config
      /\ config[FIND_STRING] = << <<"z">> >>
      /\ REPLACE_STRING \in DOMAIN config
      /\ config[REPLACE_STRING] = << <<>> >>

\* C23 (as stated): the function-like lines with an empty value are stored
\* with the empty string: 'replace_string(x): ' gives find_string == ['x']
\* and replace_string == [''], 'http_header(ab):' gives http_header.ab == ''
\* and 'wrap_in(Ab): ' gives wrap_in.Ab == ''.
C23_EmptyFunctionValueStored ==
  Parsed =>
    LET config == call.result.config IN
      /\ input = ReplaceFunctionEmptyLine =>
           /\ FIND_STRING \in DOMAIN config
           /\ config[FIND_STRING] = << <<"x">> >>
           /\ REPLACE_STRING \in DOMAIN config
           /\ config[REPLACE_STRING] = << <<>> >>
      /\ input = HeaderEmptyLine =>
           /\ HTTP_HEADER \in DOMAIN config
           /\ config[HTTP_HEADER] = [n \in {<<"a", "b">>} |-> <<>>]
      /\ input = WrapInEmptyLine =>
           /\ WRAP_IN \in DOMAIN config
           /\ config[WRAP_IN] = [n \in {<<"A", "b">>} |-> <<>>]

\* a line that is no comment and has no colon or nothing before its colon
IsMalformedLine(trimmed) ==
  /\ Reading(trimmed).shape = "malformed"
  /\ \/ indexOf(trimmed, ":") = -1
     \/ trim(substringTo(trimmed, 0, indexOf(trimmed, ":"))) = <<>>

\* a line that is malformed, has an unrecognised key, is a simple-form
\* http_header or wrap_in, or is function-like with a name other than
\* http_header, replace_string and wrap_in
IsUnstoredLine(trimmed) ==
  LET r == Reading(trimmed) IN
    \/ IsMalformedLine(trimmed)
    \/ r.shape = "simple" /\ r.name \notin KNOWN_DIRECTIVES
    \/ r.shape = "simple" /\ r.name \in {HTTP_HEADER, WRAP_IN}
    \/ r.shape = "function"
         /\ r.name \notin {HTTP_HEADER, REPLACE_STRING, WRAP_IN}

\* the text without its unstored lines
WithoutUnstored ==
  join(SelectSeq(split(input), LAMBDA line : ~IsUnstoredLine(trim(line))))

\* C24: the malformed lines, the lines with an unrecognised key, the
\* simple-form http_header and wrap_in lines and the function-like lines
\* with another name do not change the configuration and do not stop the
\* parsing: the text without them gives the same configuration.
C24_UnstoredLinesLeaveConfig ==
  Parsed =>
    call.result.config = parseConfigFile(WithoutUnstored, FILENAME).config

\* a malformed line and a function-like line with an unknown name were
\* parsed before a line that is stored
C24_Witness ==
  /\ Parsed
  /\ LET lines == split(input) IN
       /\ Len(lines) = 3
       /\ IsMalformedLine(trim(lines[1]))
       /\ Reading(trim(lines[2])).shape = "function"
       /\ IsUnstoredLine(trim(lines[2]))
       /\ ~IsUnstoredLine(trim(lines[3]))
  /\ DOMAIN call.result.config # {}
  /\ call.result.unknownDirectives # {}

\* the line with the name of its function-like shape in lower case
LowerCaseName(line) ==
  LET r == Reading(trim(line))
      trimmed == trim(line)
  IN IF r.shape = "function"
       THEN toLowerCase(r.name) \o substring(trimmed, Len(r.name))
       ELSE line

\* the text with every function-like name in lower case
WithLowerCaseNames ==
  LET lines == split(input) IN
    join([i \in 1..Len(lines) |-> LowerCaseName(lines[i])])

\* C25 (as stated): a function-like line whose name is not written in lower
\* case is classified and stored like the line with the lower-case name.
C25_FunctionNamesCaseInsensitive ==
  Parsed =>
    LET lower == parseConfigFile(WithLowerCaseNames, FILENAME) IN
      /\ call.result.config = lower.config
      /\ call.result.unknownDirectives = lower.unknownDirectives

(***************************************************************************)
(* Properties of loading (checked under Spec and SpecFair)                 *)
(***************************************************************************)
\* C26: while a load for the normalised hostname is in flight, a call of
\* getConfigForHost for any spelling of it returns the pending promise kept
\* in loading and starts no load, whatever was called or cleared before.
C26_LoadsAreDeduplicated ==
  \A h \in ManagerHostnames :
    LET hostname == normalizeHostname(h) IN
      hostname \in DOMAIN loading =>
        /\ getConfigForHost(h).path = "loading"
        /\ getConfigForHost(h).value = loading[hostname]
        /\ loading[hostname].state = "pending"

\* a call arrived while the load was in flight, after clearCache() left
\* the cache empty
C26_Witness ==
  /\ call.op = "getConfigForHost"
  /\ call.result.path = "loading"
  /\ call.result.value.state = "pending"
  /\ call.hostname # call.result.hostname
  /\ cache = EmptyObject
  /\ \E hostname \in DOMAIN loading : hostname # call.result.hostname

\* C27: when the import fails, the global default loadConfig returns is
\* stored in the cache under the hostname, and until clearCache() every
\* call for that hostname returns this object from the cache, starting no
\* load.
C27_FailedLoadIsCached ==
  /\ (completion.status = "fulfilled" /\ completion.importFailed) =>
        /\ completion.value.kind = "global"
        /\ completion.hostname \in DOMAIN cache
        /\ cache[completion.hostname] = completion.value
        /\ completion.hostname \notin DOMAIN loading
  /\ \A h \in ManagerHostnames :
        LET hostname == normalizeHostname(h) IN
          (servedSinceClear(hostname).kind = "global") =>
            /\ getConfigForHost(h).path = "cache"
            /\ getConfigForHost(h).value = servedSinceClear(hostname)

\* a call returned the global default of an earlier failed load from the
\* cache
C27_Witness ==
  /\ call.op = "getConfigForHost"
  /\ call.result.path = "cache"
  /\ call.result.value.kind = "global"
  /\ getConfigKeyForHost(call.result.hostname) # NULL

\* C28: every key of cache and of loading is a lower-case hostname that
\* resolves to a configuration key.
C28_KeysAreNormalisedAndResolved ==
  \A hostname \in DOMAIN cache \cup DOMAIN loading :
    /\ hostname = toLowerCase(hostname)
    /\ getConfigKeyForHost(hostname) # NULL

\* a hostname with upper-case letters whose key does not resolve was asked
\* for while another hostname is cached or loading: it got the global
\* default and is no key of cache or loading
C28_Witness ==
  /\ call.op = "getConfigForHost"
  /\ call.hostname # toLowerCase(call.hostname)
  /\ getConfigKeyForHost(normalizeHostname(call.hostname)) = NULL
  /\ call.result.path = "global"
  /\ DOMAIN cache \cup DOMAIN loading # {}

\* C29: no hostname is a key of cache and a key of loading at once.
C29_CacheAndLoadingDisjoint ==
  DOMAIN cache \cap DOMAIN loading = {}

\* a load has just completed into the cache while another is in flight
C29_Witness ==
  /\ call = NoCall
  /\ completion.status = "fulfilled"
  /\ completion.hostname \in DOMAIN cache
  /\ completion.hostname \notin DOMAIN loading
  /\ loading # EmptyObject

\* C30: when every started load settles, every entry of loading is
\* eventually removed, with the promise of the calls that wait for it
\* fulfilled with a configuration.
C30_LoadsEventuallyComplete ==
  \A hostname \in LoadingHostnames :
    (hostname \in DOMAIN loading) ~>
      /\ hostname \notin DOMAIN loading
      /\ completion.hostname = hostname
      /\ completion.status = "fulfilled"
      /\ completion.value.kind \in {"site", "global"}

\* two loads were in flight and one of them has completed
C30_Witness ==
  /\ completion.status = "fulfilled"
  /\ completion.hostname \notin DOMAIN loading
  /\ completion.value.kind \in {"site", "global"}
  /\ call = NoCall
  /\ cache = [k \in {completion.hostname} |-> completion.value]
  /\ loading # EmptyObject

=============================================================================
